---- MODULE Spec2Model ----
(***************************************************************************)
(* Model of examples/esp32/src/bin/ble_bas_peripheral.rs: a BLE battery    *)
(* service peripheral.  main() builds the attribute table, encodes the     *)
(* advertisement, creates the GATT server and then joins three futures:    *)
(* the radio pump ble.run(), the GATT event loop, and the                  *)
(* advertise -> accept -> notify sequence.                                 *)
(*                                                                         *)
(* The trouble_host library (AttributeTable, AdStructure, BleHost) is not  *)
(* part of the example's source; its behaviour is taken from the           *)
(* specification and the definitions doing so are marked in the map.       *)
(***************************************************************************)
EXTENDS Integers, Sequences, FiniteSets, TLC

(* ---------------- bounds of the model ---------------- *)
\* notifications issued before the timer is no longer allowed to fire
MaxNotifs == 258
\* consecutive event-stream errors the radio pump may deliver
MaxErrs == 3
\* time units one BLE operation may take to complete
MaxIoTime == 1
\* notifications issued under the specification that varies the advertisement
MaxEncNotifs == 2

(* ---------------- program constants ---------------- *)
U8Mod == 256          \* tick: u8
TableCapacity == 10   \* AttributeTable<'_, NoopRawMutex, 10>
AdvCapacity == 31     \* let mut adv_data = [0; 31]
GAP_SERVICE == 6144        \* 0x1800
DEVICE_NAME == 10752       \* 0x2a00
APPEARANCE == 10753        \* 0x2a01
GATT_SERVICE == 6145       \* 0x1801
BATTERY_SERVICE == 6159    \* 0x180f
BATTERY_LEVEL == 10777     \* 0x2a19
NameLen == 13              \* b"Trouble ESP32"
Period == 10               \* Timer::after(Duration::from_secs(10))

VARIABLES
    mainpc,          \* position of main(): a step of SetupOrder, "joined", "returned"
    panic,           \* "none", or the unwrap()/overflow that panicked
    overflow_checks, \* build profile: is `tick += 1` compiled with overflow checks
    table,           \* AttributeTable: sequence of attributes, in registration order
    handle,          \* the characteristic handle captured by `let handle = ...` (0: not yet)
    bat_level,       \* value buffer of the battery level characteristic
    adv_len,         \* bytes of adv_data written by encode_slice
    server,          \* has ble.gatt_server(&table) been created
    pump,            \* ble.run(): "idle", "running", "done"
    evpc,            \* GATT event loop: "idle", "next" (at server.next().await), "done"
    evres,           \* result of server.next(): "none", "ok", "err"
    errs,            \* consecutive Err results handled by the event loop
    lastLog,         \* last line logged by the event loop: "none", "info", "warn"
    npc,             \* connection sequence: "idle","advertise","accept","timer","notify","done"
    nres,            \* result of the pending BLE operation: "none", "ok", "err"
    session,         \* host state: "Idle", "Advertising", "Connected"
    advCalls,        \* calls of ble.advertise()
    acceptCalls,     \* calls of advertiser.accept()
    conns,           \* Connections returned by accept()
    tick,            \* let mut tick: u8
    nsent,           \* calls of server.notify()
    lastPayload,     \* payload byte of the last notify call
    lastHandle,      \* handle addressed by the last notify call
    notifyFailed,    \* has a notify call returned Err
    joinDone,        \* has join3(...) produced its result
    adv_input,       \* the structures given to encode_slice: the data length of each
    io_time,         \* time units a BLE operation takes to complete on this link
    now,             \* the clock
    timerAt,         \* expiry of the pending Timer::after
    acceptAt,        \* the time accept() returned
    sentAt           \* the time of the last notify call

vars == <<mainpc, panic, overflow_checks, table, handle, bat_level, adv_len, server,
          pump, evpc, evres, errs, lastLog, npc, nres, session, advCalls,
          acceptCalls, conns, tick, nsent, lastPayload, lastHandle, notifyFailed,
          joinDone, adv_input, io_time, now, timerAt, acceptAt, sentAt>>

\* fixed for a run: the build profile, the advertisement's structures, the link
envVars == <<overflow_checks, adv_input, io_time>>
timeVars == <<now, timerAt, acceptAt, sentAt>>
setupVars == <<table, handle, bat_level, adv_len, server>>
pumpVars == <<pump>>
eventVars == <<evpc, evres, errs, lastLog>>
connVars == <<npc, nres, advCalls, acceptCalls, conns, tick, nsent, lastPayload,
              lastHandle, notifyFailed>>

(* ---------------- order of the statements of main() ---------------- *)
SetupOrderBatteryFirst == <<"battery", "gap", "gatt", "encode", "server", "join">>

\* lines 59-93: Generic Access, Generic Attribute, Battery, encode_slice,
\* gatt_server, join3
SetupOrder == <<"gap", "gatt", "battery", "encode", "server", "join">>

AfterStep(step) ==
    LET i == CHOOSE k \in 1..Len(SetupOrder) : SetupOrder[k] = step
    IN  IF i = Len(SetupOrder) THEN "joined" ELSE SetupOrder[i + 1]

Halted == panic # "none"

(* ---------------- AttributeTable (trouble_host) ---------------- *)
\* the next handle: attributes are numbered 1, 2, 3, ... in registration order
NextHandle(t) == Len(t) + 1

\* register one attribute; its handle is the next free one
PushAttribute(t, kind, svc, uuid) ==
    Append(t, [kind |-> kind, svc |-> svc, uuid |-> uuid, handle |-> NextHandle(t)])

\* Service::new(uuid) registered with table.add_service
AddServiceAttr(t, svc) == PushAttribute(t, "service", svc, svc)

\* svc.add_characteristic / add_characteristic_ro
AddCharacteristicAttr(t, svc, uuid) == PushAttribute(t, "characteristic", svc, uuid)

HandlesOf(t, svc) == {t[i].handle : i \in {j \in 1..Len(t) : t[j].svc = svc}}

(* ---------------- AdStructure::encode_slice (trouble_host) ---------------- *)
\* a length-prefixed typed record: length byte, type byte, data
RecordLen(dataLen) == 2 + dataLen

\* Flags (1 byte), ServiceUuids16 with one uuid (2 bytes), CompleteLocalName
EncodedLen == RecordLen(1) + RecordLen(2) + RecordLen(NameLen)

\* lines 81-85: the structures main() encodes, each by the length of its data
AdStructures == <<1, 2, NameLen>>

\* the records are packed one after the other: the total encoded length
RECURSIVE TotalLen(_)
TotalLen(structs) ==
    IF structs = <<>> THEN 0
    ELSE RecordLen(Head(structs)) + TotalLen(Tail(structs))

\* structure lists around the capacity of the buffer: the program's own, one
\* that fills the 31 bytes exactly and one that is a byte too long
AdInputs ==
    {AdStructures, <<1, 2, AdvCapacity - 9>>, <<1, 2, AdvCapacity - 8>>}

(* ---------------- setup in main() ---------------- *)
InitProgram ==
    /\ mainpc = SetupOrder[1]
    /\ panic = "none"
    /\ overflow_checks \in BOOLEAN
    /\ table = <<>>
    /\ handle = 0
    /\ bat_level = 0
    /\ adv_len = 0
    /\ server = FALSE
    /\ pump = "idle"
    /\ evpc = "idle"
    /\ evres = "none"
    /\ errs = 0
    /\ lastLog = "none"
    /\ npc = "idle"
    /\ nres = "none"
    /\ session = "Idle"
    /\ advCalls = 0
    /\ acceptCalls = 0
    /\ conns = 0
    /\ tick = 0
    /\ nsent = 0
    /\ lastPayload = 0
    /\ lastHandle = 0
    /\ notifyFailed = FALSE
    /\ joinDone = FALSE
    /\ io_time \in 0..MaxIoTime
    /\ now = 0
    /\ timerAt = 0
    /\ acceptAt = 0
    /\ sentAt = 0

\* the program as written: the advertisement of lines 81-85
Init == InitProgram /\ adv_input = AdStructures

\* the same program given any of the structure lists of AdInputs
InitEnc == InitProgram /\ adv_input \in AdInputs

\* a setup step that stores `t` as the table, or panics when it overflows
SetTable(t, step) ==
    IF Len(t) > TableCapacity
    THEN /\ panic' = "table"
         /\ UNCHANGED <<mainpc, table>>
    ELSE /\ table' = t
         /\ mainpc' = AfterStep(step)
         /\ UNCHANGED panic

\* lines 60-63: Generic Access service with device name and appearance
AddGenericAccess ==
    /\ mainpc = "gap" /\ ~Halted
    /\ SetTable(AddCharacteristicAttr(
                  AddCharacteristicAttr(AddServiceAttr(table, GAP_SERVICE),
                                        GAP_SERVICE, DEVICE_NAME),
                  GAP_SERVICE, APPEARANCE), "gap")
    /\ UNCHANGED <<envVars, handle, bat_level, adv_len, server, session, joinDone>>
    /\ UNCHANGED <<pumpVars, eventVars, connVars>>
    /\ UNCHANGED timeVars

\* line 66: Generic Attribute service, no characteristics
AddGenericAttribute ==
    /\ mainpc = "gatt" /\ ~Halted
    /\ SetTable(AddServiceAttr(table, GATT_SERVICE), "gatt")
    /\ UNCHANGED <<envVars, handle, bat_level, adv_len, server, session, joinDone>>
    /\ UNCHANGED <<pumpVars, eventVars, connVars>>
    /\ UNCHANGED timeVars

\* a block whose value is the handle of the service, not of its characteristic
AddBatteryServiceWrongHandle ==
    /\ mainpc = "battery" /\ ~Halted
    /\ LET t1 == AddServiceAttr(table, BATTERY_SERVICE)
           t2 == AddCharacteristicAttr(t1, BATTERY_SERVICE, BATTERY_LEVEL)
       IN  /\ SetTable(t2, "battery")
           /\ handle' = IF Len(t2) > TableCapacity THEN handle ELSE t1[Len(t1)].handle
    /\ UNCHANGED <<envVars, bat_level, adv_len, server, session, joinDone>>
    /\ UNCHANGED <<pumpVars, eventVars, connVars>>
    /\ UNCHANGED timeVars

\* lines 69-76: Battery service with the Read+Notify battery level; the built
\* characteristic's handle is the value of the block, bound to `handle`
AddBatteryService ==
    /\ mainpc = "battery" /\ ~Halted
    /\ LET t1 == AddServiceAttr(table, BATTERY_SERVICE)
           t2 == AddCharacteristicAttr(t1, BATTERY_SERVICE, BATTERY_LEVEL)
       IN  /\ SetTable(t2, "battery")
           /\ handle' = IF Len(t2) > TableCapacity THEN handle ELSE t2[Len(t2)].handle
    /\ UNCHANGED <<envVars, bat_level, adv_len, server, session, joinDone>>
    /\ UNCHANGED <<pumpVars, eventVars, connVars>>
    /\ UNCHANGED timeVars

\* an encoding whose result is ignored instead of unwrapped
EncodeAdvertisementUnchecked ==
    /\ mainpc = "encode" /\ ~Halted
    /\ adv_len' = TotalLen(adv_input)
    /\ mainpc' = AfterStep("encode")
    /\ UNCHANGED <<panic, envVars, table, handle, bat_level, server, session, joinDone>>
    /\ UNCHANGED <<pumpVars, eventVars, connVars>>
    /\ UNCHANGED timeVars

\* lines 79-88: AdStructure::encode_slice(...).unwrap()
EncodeAdvertisement ==
    /\ mainpc = "encode" /\ ~Halted
    /\ IF TotalLen(adv_input) > AdvCapacity
       THEN /\ panic' = "encode"
            /\ UNCHANGED <<mainpc, adv_len>>
       ELSE /\ adv_len' = TotalLen(adv_input)
            /\ mainpc' = AfterStep("encode")
            /\ UNCHANGED panic
    /\ UNCHANGED <<envVars, table, handle, bat_level, server, session, joinDone>>
    /\ UNCHANGED <<pumpVars, eventVars, connVars>>
    /\ UNCHANGED timeVars

\* line 90: let server = ble.gatt_server(&table)
GattServer ==
    /\ mainpc = "server" /\ ~Halted
    /\ server' = TRUE
    /\ mainpc' = AfterStep("server")
    /\ UNCHANGED <<panic, envVars, table, handle, bat_level, adv_len, session,
                   joinDone>>
    /\ UNCHANGED <<pumpVars, eventVars, connVars>>
    /\ UNCHANGED timeVars

(* ---------------- join3 (line 93) ---------------- *)
Join3ReadyAny(a, b, c) == a \/ b \/ c

\* join3 is ready once every one of its three futures has produced its output
Join3Ready(a, b, c) == a /\ b /\ c

\* the poll of join3 after a branch has run: p, e, n are the branches' new positions
PollJoin(p, e, n) ==
    LET ready == Join3Ready(p = "done", e = "done", n = "done")
    IN  /\ joinDone' = ready
        /\ mainpc' = IF ready THEN "returned" ELSE mainpc

Running == mainpc = "joined" /\ ~Halted

\* lines 93-128: the first poll of join3 starts ble.run(), the event loop up to
\* server.next().await and the third block up to ble.advertise(..).await
StartJoin ==
    /\ mainpc = "join" /\ ~Halted
    /\ mainpc' = AfterStep("join")
    /\ pump' = "running"
    /\ evpc' = "next"
    /\ npc' = "advertise"
    /\ advCalls' = advCalls + 1
    /\ UNCHANGED <<panic, envVars, setupVars, evres, errs, lastLog, nres,
                   session, acceptCalls, conns, tick, nsent, lastPayload, lastHandle,
                   notifyFailed, joinDone>>
    /\ UNCHANGED timeVars

(* ---------------- the radio pump ble.run() (line 94) ---------------- *)
\* the pump completes the pending server.next() with an event or an error
RunnerServeEvent ==
    /\ Running /\ pump = "running"
    /\ evpc = "next" /\ evres = "none"
    /\ \E r \in {"ok", "err"} :
         /\ r = "err" => errs < MaxErrs
         /\ evres' = r
    /\ UNCHANGED <<mainpc, panic, envVars, setupVars, pumpVars, evpc, errs,
                   lastLog, connVars, session, joinDone>>
    /\ UNCHANGED timeVars

\* the host state after the pump has completed operation `op` with result r
SessionAfter(s, op, r) ==
    IF r = "ok" /\ op = "advertise" /\ s = "Idle" THEN "Advertising"
    ELSE IF r = "ok" /\ op = "accept" /\ s = "Advertising" THEN "Connected"
    ELSE s

\* operations that complete whether or not the pump runs
RunnerServeConnNoPump ==
    /\ Running
    /\ npc \in {"advertise", "accept", "notify"} /\ nres = "none"
    /\ \E r \in {"ok", "err"} :
         /\ nres' = r
         /\ session' = SessionAfter(session, npc, r)
    /\ UNCHANGED <<mainpc, panic, envVars, setupVars, pumpVars, eventVars, npc,
                   advCalls, acceptCalls, conns, tick, nsent, lastPayload, lastHandle,
                   notifyFailed, joinDone>>
    /\ now' = now + io_time
    /\ UNCHANGED <<timerAt, acceptAt, sentAt>>

\* the pump completes the pending advertise(), accept() or notify(), which
\* takes io_time
RunnerServeConn ==
    /\ Running /\ pump = "running"
    /\ npc \in {"advertise", "accept", "notify"} /\ nres = "none"
    /\ \E r \in {"ok", "err"} :
         /\ nres' = r
         /\ session' = SessionAfter(session, npc, r)
    /\ UNCHANGED <<mainpc, panic, envVars, setupVars, pumpVars, eventVars, npc,
                   advCalls, acceptCalls, conns, tick, nsent, lastPayload, lastHandle,
                   notifyFailed, joinDone>>
    /\ now' = now + io_time
    /\ UNCHANGED <<timerAt, acceptAt, sentAt>>

\* ble.run() returns (a transport error): the first future of join3 completes
RunnerFail ==
    /\ Running /\ pump = "running"
    /\ pump' = "done"
    /\ PollJoin(pump', evpc, npc)
    /\ UNCHANGED <<panic, envVars, setupVars, eventVars, connVars, session>>
    /\ UNCHANGED timeVars

(* ---------------- the GATT event loop (lines 95-106) ---------------- *)
\* an error budget: the loop gives up at the second consecutive error
GattEventErrBudget ==
    /\ Running /\ evpc = "next" /\ evres = "err"
    /\ lastLog' = "warn"
    /\ errs' = errs + 1
    /\ evres' = "none"
    /\ evpc' = IF errs + 1 >= 2 THEN "done" ELSE "next"
    /\ PollJoin(pump, evpc', npc)
    /\ UNCHANGED <<panic, envVars, setupVars, pumpVars, connVars, session>>
    /\ UNCHANGED timeVars

\* lines 98-100: Ok(_event) => info!("Gatt event!"), then next() again
GattEventOk ==
    /\ Running /\ evpc = "next" /\ evres = "ok"
    /\ lastLog' = "info"
    /\ errs' = 0
    /\ evres' = "none"
    /\ evpc' = "next"
    /\ PollJoin(pump, evpc', npc)
    /\ UNCHANGED <<panic, envVars, setupVars, pumpVars, connVars, session>>
    /\ UNCHANGED timeVars

\* lines 101-103: Err(e) => warn!(..), then next() again
GattEventErr ==
    /\ Running /\ evpc = "next" /\ evres = "err"
    /\ lastLog' = "warn"
    /\ errs' = errs + 1
    /\ evres' = "none"
    /\ evpc' = "next"
    /\ PollJoin(pump, evpc', npc)
    /\ UNCHANGED <<panic, envVars, setupVars, pumpVars, connVars, session>>
    /\ UNCHANGED timeVars

(* ---------------- advertise, accept, notify (lines 107-126) ---------------- *)
\* a sequence that starts the notify loop without waiting for a connection
AdvertiseReturnNoAccept ==
    /\ Running /\ npc = "advertise" /\ nres # "none"
    /\ IF nres = "ok"
       THEN /\ npc' = "timer"
            /\ nres' = "none"
            /\ tick' = 0
            /\ PollJoin(pump, evpc, npc')
            /\ UNCHANGED panic
       ELSE /\ panic' = "advertise"
            /\ UNCHANGED <<mainpc, npc, nres, tick, joinDone>>
    /\ UNCHANGED <<envVars, setupVars, pumpVars, eventVars, session, advCalls,
                   acceptCalls, conns, nsent, lastPayload, lastHandle, notifyFailed>>
    /\ UNCHANGED timeVars

\* a sequence whose block ends on a failed advertise() instead of panicking
AdvertiseReturnContained ==
    /\ Running /\ npc = "advertise" /\ nres # "none"
    /\ npc' = IF nres = "ok" THEN "accept" ELSE "done"
    /\ acceptCalls' = IF nres = "ok" THEN acceptCalls + 1 ELSE acceptCalls
    /\ nres' = "none"
    /\ PollJoin(pump, evpc, npc')
    /\ UNCHANGED <<panic, envVars, setupVars, pumpVars, eventVars, session, advCalls,
                   conns, tick, nsent, lastPayload, lastHandle, notifyFailed>>
    /\ UNCHANGED timeVars

\* lines 108-118: ble.advertise(..).await.unwrap(), then advertiser.accept()
AdvertiseReturn ==
    /\ Running /\ npc = "advertise" /\ nres # "none"
    /\ IF nres = "ok"
       THEN /\ npc' = "accept"
            /\ nres' = "none"
            /\ acceptCalls' = acceptCalls + 1
            /\ PollJoin(pump, evpc, npc')
            /\ UNCHANGED panic
       ELSE /\ panic' = "advertise"
            /\ UNCHANGED <<mainpc, npc, nres, acceptCalls, joinDone>>
    /\ UNCHANGED <<envVars, setupVars, pumpVars, eventVars, session, advCalls,
                   conns, tick, nsent, lastPayload, lastHandle, notifyFailed>>
    /\ UNCHANGED timeVars

\* a sequence that calls accept() again when it fails
AcceptReturnRetry ==
    /\ Running /\ npc = "accept" /\ nres # "none"
    /\ IF nres = "ok"
       THEN /\ conns' = conns + 1
            /\ npc' = "timer"
            /\ acceptAt' = now
            /\ timerAt' = now + Period
            /\ UNCHANGED acceptCalls
       ELSE /\ acceptCalls' = acceptCalls + 1
            /\ UNCHANGED <<npc, conns, acceptAt, timerAt>>
    /\ tick' = 0
    /\ nres' = "none"
    /\ PollJoin(pump, evpc, npc')
    /\ UNCHANGED <<panic, envVars, setupVars, pumpVars, eventVars, session, advCalls,
                   nsent, lastPayload, lastHandle, notifyFailed>>
    /\ UNCHANGED <<now, sentAt>>

\* lines 118-122: let conn = advertiser.accept().await.unwrap(); tick = 0; the
\* loop starts its first Timer::after(10 s)
AcceptReturn ==
    /\ Running /\ npc = "accept" /\ nres # "none"
    /\ IF nres = "ok"
       THEN /\ conns' = conns + 1
            /\ tick' = 0
            /\ npc' = "timer"
            /\ acceptAt' = now
            /\ timerAt' = now + Period
            /\ nres' = "none"
            /\ PollJoin(pump, evpc, npc')
            /\ UNCHANGED panic
       ELSE /\ panic' = "accept"
            /\ UNCHANGED <<mainpc, npc, nres, conns, tick, joinDone, acceptAt, timerAt>>
    /\ UNCHANGED <<envVars, setupVars, pumpVars, eventVars, session, advCalls,
                   acceptCalls, nsent, lastPayload, lastHandle, notifyFailed>>
    /\ UNCHANGED <<now, sentAt>>

\* an increment that skips a value
TickIncrementSkip(t, checks) ==
    IF t + 2 >= U8Mod /\ checks
    THEN [val |-> t, overflow |-> TRUE]
    ELSE [val |-> (t + 2) % U8Mod, overflow |-> FALSE]

\* line 123: tick += 1 on a u8.  With overflow checks (the dev profile) 255 + 1
\* panics, without them (the release profile) it wraps to 0
TickIncrement(t, checks) ==
    IF t + 1 >= U8Mod /\ checks
    THEN [val |-> t, overflow |-> TRUE]
    ELSE [val |-> (t + 1) % U8Mod, overflow |-> FALSE]

\* a loop that also stores the counter in the characteristic's value buffer
TimerFireWritesBuffer ==
    /\ Running /\ npc = "timer"
    /\ nsent < MaxNotifs
    /\ now' = IF now < timerAt THEN timerAt ELSE now
    /\ LET inc == TickIncrement(tick, overflow_checks)
       IN  IF inc.overflow
           THEN /\ panic' = "overflow"
                /\ UNCHANGED <<mainpc, npc, nres, tick, nsent, lastPayload, lastHandle,
                               joinDone, sentAt>>
           ELSE /\ tick' = inc.val
                /\ nsent' = nsent + 1
                /\ lastPayload' = inc.val
                /\ lastHandle' = handle
                /\ sentAt' = now'
                /\ npc' = "notify"
                /\ nres' = "none"
                /\ PollJoin(pump, evpc, npc')
                /\ UNCHANGED panic
    /\ bat_level' = tick
    /\ UNCHANGED <<envVars, table, handle, adv_len, server, pumpVars, eventVars, session, advCalls,
                   acceptCalls, conns, notifyFailed>>
    /\ UNCHANGED <<timerAt, acceptAt>>

\* lines 122-124: the clock reaches the timer's expiry, tick += 1,
\* server.notify(handle, &conn, &[tick])
TimerFire ==
    /\ Running /\ npc = "timer"
    /\ nsent < MaxNotifs
    /\ now' = IF now < timerAt THEN timerAt ELSE now
    /\ LET inc == TickIncrement(tick, overflow_checks)
       IN  IF inc.overflow
           THEN /\ panic' = "overflow"
                /\ UNCHANGED <<mainpc, npc, nres, tick, nsent, lastPayload, lastHandle,
                               joinDone, sentAt>>
           ELSE /\ tick' = inc.val
                /\ nsent' = nsent + 1
                /\ lastPayload' = inc.val
                /\ lastHandle' = handle
                /\ sentAt' = now'
                /\ npc' = "notify"
                /\ nres' = "none"
                /\ PollJoin(pump, evpc, npc')
                /\ UNCHANGED panic
    /\ UNCHANGED <<envVars, setupVars, pumpVars, eventVars, session, advCalls,
                   acceptCalls, conns, notifyFailed>>
    /\ UNCHANGED <<timerAt, acceptAt>>

\* a loop that ignores a failed send and goes on to the next tick
NotifyReturnRetry ==
    /\ Running /\ npc = "notify" /\ nres # "none"
    /\ notifyFailed' = (notifyFailed \/ nres = "err")
    /\ npc' = "timer"
    /\ nres' = "none"
    /\ PollJoin(pump, evpc, npc')
    /\ UNCHANGED <<panic, envVars, setupVars, pumpVars, eventVars, session,
                   advCalls, acceptCalls, conns, tick, nsent, lastPayload, lastHandle>>
    /\ timerAt' = now + Period
    /\ UNCHANGED <<now, acceptAt, sentAt>>

\* a loop that advertises again after a failed send
NotifyReturnReadvertise ==
    /\ Running /\ npc = "notify" /\ nres # "none"
    /\ notifyFailed' = (notifyFailed \/ nres = "err")
    /\ npc' = IF nres = "ok" THEN "timer" ELSE "advertise"
    /\ advCalls' = IF nres = "ok" THEN advCalls ELSE advCalls + 1
    /\ nres' = "none"
    /\ PollJoin(pump, evpc, npc')
    /\ UNCHANGED <<panic, envVars, setupVars, pumpVars, eventVars, session,
                   acceptCalls, conns, tick, nsent, lastPayload, lastHandle>>
    /\ timerAt' = now + Period
    /\ UNCHANGED <<now, acceptAt, sentAt>>

\* a loop paced by a fixed-rate ticker: the next expiry is 10 s after the last one
NotifyReturnTicker ==
    /\ Running /\ npc = "notify" /\ nres # "none"
    /\ IF nres = "ok"
       THEN /\ npc' = "timer"
            /\ timerAt' = timerAt + Period
            /\ nres' = "none"
            /\ PollJoin(pump, evpc, npc')
            /\ UNCHANGED <<panic, notifyFailed>>
       ELSE /\ notifyFailed' = TRUE
            /\ panic' = "notify"
            /\ UNCHANGED <<mainpc, npc, nres, joinDone, timerAt>>
    /\ UNCHANGED <<envVars, setupVars, pumpVars, eventVars, session, advCalls,
                   acceptCalls, conns, tick, nsent, lastPayload, lastHandle>>
    /\ UNCHANGED <<now, acceptAt, sentAt>>

\* lines 122-124: server.notify(..).await.unwrap(): Ok goes round the loop to a
\* new Timer::after(10 s), Err panics
NotifyReturn ==
    /\ Running /\ npc = "notify" /\ nres # "none"
    /\ IF nres = "ok"
       THEN /\ npc' = "timer"
            /\ timerAt' = now + Period
            /\ nres' = "none"
            /\ PollJoin(pump, evpc, npc')
            /\ UNCHANGED <<panic, notifyFailed>>
       ELSE /\ notifyFailed' = TRUE
            /\ panic' = "notify"
            /\ UNCHANGED <<mainpc, npc, nres, joinDone, timerAt>>
    /\ UNCHANGED <<envVars, setupVars, pumpVars, eventVars, session, advCalls,
                   acceptCalls, conns, tick, nsent, lastPayload, lastHandle>>
    /\ UNCHANGED <<now, acceptAt, sentAt>>

(* ---------------- the program ---------------- *)
Next ==
    \/ AddGenericAccess
    \/ AddGenericAttribute
    \/ AddBatteryService
    \/ EncodeAdvertisement
    \/ GattServer
    \/ StartJoin
    \/ RunnerServeEvent
    \/ RunnerServeConn
    \/ RunnerFail
    \/ GattEventOk
    \/ GattEventErr
    \/ AdvertiseReturn
    \/ AcceptReturn
    \/ TimerFire
    \/ NotifyReturn

Spec == Init /\ [][Next]_vars

\* the program given the structure lists of AdInputs, followed for its first
\* MaxEncNotifs notifications
NextEnc ==
    \/ AddGenericAccess
    \/ AddGenericAttribute
    \/ AddBatteryService
    \/ EncodeAdvertisement
    \/ GattServer
    \/ StartJoin
    \/ RunnerServeEvent
    \/ RunnerServeConn
    \/ RunnerFail
    \/ GattEventOk
    \/ GattEventErr
    \/ AdvertiseReturn
    \/ AcceptReturn
    \/ (nsent < MaxEncNotifs /\ TimerFire)
    \/ NotifyReturn

SpecEnc == InitEnc /\ [][NextEnc]_vars

TypeOK ==
    /\ mainpc \in {"gap", "gatt", "battery", "encode", "server", "join", "joined", "returned"}
    /\ panic \in {"none", "table", "encode", "advertise", "accept", "overflow", "notify"}
    /\ pump \in {"idle", "running", "done"}
    /\ evpc \in {"idle", "next", "done"}
    /\ npc \in {"idle", "advertise", "accept", "timer", "notify", "done"}
    /\ evres \in {"none", "ok", "err"} /\ nres \in {"none", "ok", "err"}
    /\ session \in {"Idle", "Advertising", "Connected"}
    /\ tick \in 0..(U8Mod - 1) /\ lastPayload \in 0..(U8Mod - 1)
    /\ nsent \in 0..MaxNotifs /\ errs \in 0..MaxErrs
    /\ io_time \in 0..MaxIoTime /\ adv_input \in AdInputs
    /\ now \in Nat /\ timerAt \in Nat /\ acceptAt \in Nat /\ sentAt \in Nat

\* the pump completes the pending advertise(), accept() or notify() successfully:
\* a peer connects and no send fails
RunnerServeConnOk == RunnerServeConn /\ nres' = "ok"

\* the program on a link where a peer connects, no send fails and the radio
\* pump keeps running
NextLive ==
    \/ AddGenericAccess
    \/ AddGenericAttribute
    \/ AddBatteryService
    \/ EncodeAdvertisement
    \/ GattServer
    \/ StartJoin
    \/ RunnerServeEvent
    \/ RunnerServeConnOk
    \/ GattEventOk
    \/ GattEventErr
    \/ AdvertiseReturn
    \/ AcceptReturn
    \/ TimerFire
    \/ NotifyReturn

\* the executor resumes every ready task, the radio pump included, and timers expire
Fairness ==
    /\ WF_vars(AddGenericAccess) /\ WF_vars(AddGenericAttribute)
    /\ WF_vars(AddBatteryService) /\ WF_vars(EncodeAdvertisement)
    /\ WF_vars(GattServer) /\ WF_vars(StartJoin)
    /\ WF_vars(RunnerServeConnOk)
    /\ WF_vars(GattEventOk) /\ WF_vars(GattEventErr)
    /\ WF_vars(AdvertiseReturn) /\ WF_vars(AcceptReturn)
    /\ WF_vars(TimerFire) /\ WF_vars(NotifyReturn)

SpecLive == Init /\ [][NextLive]_vars /\ Fairness

(* ======================= properties ======================= *)

\* C1: the k-th notification carries the single byte k mod 256: the first one
\* carries 1, and each one carries the previous value plus 1 modulo 256.
C1_PayloadIsCountMod256 ==
    nsent >= 1 =>
        /\ lastPayload = nsent % U8Mod
        /\ lastPayload \in 0..(U8Mod - 1)
        /\ tick = lastPayload

\* C1 witness: the 257th notification has been sent, carrying 1 again
C1_Witness == nsent = U8Mod + 1 /\ lastPayload = 1 /\ npc = "notify"

\* C2 (as claimed): when the counter holds 255 and the timer fires, the
\* increment yields 0, the task does not abort and a notification carrying 0
\* is sent.
C2_WrapSendsZero ==
    [][(npc = "timer" /\ tick = U8Mod - 1 /\ (npc' # npc \/ panic' # panic))
         => (tick' = 0 /\ lastPayload' = 0 /\ nsent' = nsent + 1
             /\ npc' = "notify" /\ panic' = "none")]_vars

\* C3 (as claimed): after a notify send has returned an error the program is
\* still running: nothing has halted it, and the event loop can still handle
\* the result of its pending next().
C3_NotifyFailureIsLocal ==
    notifyFailed =>
        /\ ~Halted
        /\ (evpc = "next" /\ evres # "none") => ENABLED (GattEventOk \/ GattEventErr)

\* C4: once a notify send has failed, no further notify send is issued and the
\* tick counter is never incremented again.
C4_NoRetryAfterFailure ==
    [][notifyFailed =>
         (nsent' = nsent /\ tick' = tick /\ lastPayload' = lastPayload
          /\ npc' = npc /\ nres' = nres)]_vars

\* C4 witness: the third notify send has failed
C4_Witness == notifyFailed /\ nsent = 3 /\ npc = "notify" /\ nres = "err"

\* C5: the event loop has no error budget: handling an Err result only logs it
\* and issues next() again, whatever the number of consecutive errors, and it
\* stops neither the loop nor any other activity.
C5_EventLoopSurvivesErrors ==
    /\ [](mainpc = "joined" => evpc = "next")
    /\ [][(evpc = "next" /\ evres = "err" /\ evres' # evres)
            => (evpc' = "next" /\ evres' = "none" /\ lastLog' = "warn"
                /\ errs' = errs + 1 /\ panic' = panic /\ pump' = pump
                /\ npc' = npc /\ mainpc' = mainpc /\ ~joinDone')]_vars

\* C5 witness: MaxErrs consecutive errors were handled and next() is pending again
C5_Witness ==
    errs = MaxErrs /\ evpc = "next" /\ evres = "none" /\ lastLog = "warn" /\ Running

\* C6: advertise() is invoked at most once and accept() succeeds at most once;
\* once accept() has returned a Connection there is no further advertise() or
\* accept(), also after a notification failure.
C6_SingleAdvertiseAndAccept ==
    /\ [](advCalls <= 1 /\ acceptCalls <= 1 /\ conns <= 1)
    /\ [][conns >= 1 =>
            (advCalls' = advCalls /\ acceptCalls' = acceptCalls /\ conns' = conns)]_vars

\* C6 witness: a connection was accepted and a later notify send failed
C6_Witness == conns = 1 /\ advCalls = 1 /\ acceptCalls = 1 /\ notifyFailed

\* C7: the session goes Idle, Advertising, Connected in that order; accept() is
\* issued only after advertise() returned successfully, and the timer wait and
\* every notify send happen only after accept() returned a Connection.
C7_SessionOrder ==
    /\ [](acceptCalls >= 1 => session \in {"Advertising", "Connected"})
    /\ []((npc \in {"timer", "notify"} \/ nsent >= 1)
            => (session = "Connected" /\ conns = 1))
    /\ [](session = "Idle" => npc \in {"idle", "advertise"})
    /\ [][session' # session =>
            \/ (session = "Idle" /\ session' = "Advertising")
            \/ (session = "Advertising" /\ session' = "Connected")]_vars

\* C7 witness: connected, with a notification sent
C7_Witness == session = "Connected" /\ conns = 1 /\ nsent = 2 /\ npc = "timer"

\* C8: join3 has produced its result only if all three branches have completed.
C8_JoinNeedsAllThree ==
    joinDone => (pump = "done" /\ evpc = "done" /\ npc = "done")

\* C8 witness: the radio pump alone has completed and the composition is pending
C8_Witness == pump = "done" /\ evpc = "next" /\ npc = "notify" /\ ~joinDone /\ Running

\* C9 (as claimed): as soon as any one branch has completed, the composition
\* has completed.
C9_JoinEndsWithAnyBranch ==
    (pump = "done" \/ evpc = "done" \/ npc = "done") => (joinDone /\ mainpc = "returned")

\* C9 (amended): a step of a branch completes the composition exactly when it
\* leaves all three branches completed; otherwise main() stays in the join and
\* the other branches go on.
C9_JoinEndsWithLastBranch ==
    [][(mainpc = "joined" /\ (pump' # pump \/ evpc' # evpc \/ npc' # npc))
         => /\ joinDone' = (pump' = "done" /\ evpc' = "done" /\ npc' = "done")
            /\ (~joinDone' => mainpc' = "joined")]_vars

\* C9 witness: the radio pump has completed and the notify loop's timer can still fire
C9_Witness == pump = "done" /\ ~joinDone /\ npc = "timer" /\ nsent = 1 /\ ENABLED TimerFire

\* C10: handles increase strictly in registration order, no two attributes share
\* a handle, and every handle of the battery service is greater than every
\* handle of Generic Access and Generic Attribute.
C10_HandlesIncrease ==
    /\ \A i, j \in 1..Len(table) : i < j => table[i].handle < table[j].handle
    /\ \A a \in HandlesOf(table, BATTERY_SERVICE) :
         \A b \in HandlesOf(table, GAP_SERVICE) \cup HandlesOf(table, GATT_SERVICE) : a > b
    /\ (mainpc \notin {"gap", "gatt", "battery"} /\ panic # "table") =>
         /\ [k \in 1..Len(table) |-> table[k].uuid] =
              <<GAP_SERVICE, DEVICE_NAME, APPEARANCE, GATT_SERVICE, BATTERY_SERVICE,
                BATTERY_LEVEL>>
         /\ handle \in HandlesOf(table, BATTERY_SERVICE)

\* C10 witness: the table is built and the three services hold their handles
C10_Witness ==
    /\ mainpc = "joined"
    /\ HandlesOf(table, GAP_SERVICE) = {1, 2, 3}
    /\ HandlesOf(table, GATT_SERVICE) = {4}
    /\ HandlesOf(table, BATTERY_SERVICE) = {5, 6}
    /\ handle = 6

\* C11: connection establishment is a single attempt: after advertise() has
\* failed there is no further advertise() and no accept(); after accept() has
\* failed there is no further advertise() or accept(); no notification is sent.
C11_SingleAttempt ==
    /\ []((npc = "advertise" /\ nres = "err")
            => (advCalls = 1 /\ acceptCalls = 0 /\ nsent = 0))
    /\ []((npc = "accept" /\ nres = "err")
            => (advCalls = 1 /\ acceptCalls = 1 /\ nsent = 0))
    /\ [][(npc \in {"advertise", "accept"} /\ nres = "err")
            => (advCalls' = advCalls /\ acceptCalls' = acceptCalls /\ nsent' = nsent
                /\ npc' = npc /\ nres' = nres /\ conns' = conns)]_vars

\* C11 witness: accept() has failed after a successful advertise()
C11_Witness ==
    /\ panic = "accept" /\ npc = "accept" /\ nres = "err"
    /\ advCalls = 1 /\ acceptCalls = 1 /\ session = "Advertising"

\* C12: a failure of the advertisement encoding, of advertise() or of accept()
\* ends the whole session: the step that meets it halts the program and no
\* activity takes a further step (after an encoding failure none was started),
\* whereas handling an event-stream error stops no activity.
C12_SetupErrorsEndSession ==
    /\ [][(mainpc = "encode" /\ TotalLen(adv_input) > AdvCapacity)
            => (panic' = "encode" /\ mainpc' = mainpc)]_vars
    /\ [](panic = "encode" => (pump = "idle" /\ evpc = "idle" /\ npc = "idle"))
    /\ [][(npc \in {"advertise", "accept"} /\ nres = "err"
           /\ (npc' # npc \/ nres' # nres \/ panic' # panic))
            => panic' = npc]_vars
    /\ [][(panic \in {"encode", "advertise", "accept"}) => (vars' = vars)]_vars
    /\ [][(evres = "err" /\ evres' # evres)
            => (panic' = panic /\ pump' = pump /\ evpc' = "next" /\ npc' = npc)]_vars

\* C12 witness: the encoding has failed, before any activity was started
C12_Witness ==
    /\ panic = "encode" /\ mainpc = "encode" /\ TotalLen(adv_input) = AdvCapacity + 1
    /\ pump = "idle" /\ adv_len = 0

\* C13: a structure is encoded as a length byte, a type byte and its data; the
\* encoding fails exactly when the total exceeds the 31 bytes of the buffer, and
\* the program's own list (Flags, one 16-bit uuid, the 13-byte name) encodes to
\* 22 bytes, so it succeeds and startup goes on.
C13_EncodeFitsCapacity ==
    /\ panic = "encode" => TotalLen(adv_input) > AdvCapacity
    /\ mainpc \in {"server", "join", "joined", "returned"}
         => (TotalLen(adv_input) <= AdvCapacity /\ adv_len = TotalLen(adv_input))
    /\ adv_input = AdStructures
         => (TotalLen(adv_input) = EncodedLen /\ EncodedLen <= AdvCapacity
             /\ panic # "encode")

\* C13 witness: the program's own list was encoded and the composition runs
C13_Witness ==
    /\ adv_input = AdStructures /\ adv_len = EncodedLen /\ adv_len = 22
    /\ mainpc = "joined" /\ session = "Advertising"

\* C14 (as claimed): with every ready task resumed, a peer connecting and no
\* send failing, advertise() returns, accept() returns a Connection, every timer
\* wait is followed by a notification (as long as the model lets the timer
\* fire), and every result the stream has produced is consumed by the event loop.
C14_FairProgress ==
    /\ <>(acceptCalls = 1)
    /\ <>(conns = 1)
    /\ (npc = "timer" /\ nsent < MaxNotifs) ~> (npc = "notify")
    /\ (evres # "none") ~> (evres = "none")

C16_EventLoopUnaffected ==
    (mainpc = "joined" /\ conns = 1 /\ evpc = "next" /\ evres # "none")
        => ENABLED (GattEventOk \/ GattEventErr)

\* C17: every notify call addresses the handle captured when the battery level
\* characteristic was built and uses the one Connection; the captured handle
\* does not change after the table is built.
C17_SameHandle ==
    /\ [](nsent >= 1 =>
            /\ lastHandle = handle
            /\ conns = 1
            /\ \E i \in 1..Len(table) :
                 /\ table[i].uuid = BATTERY_LEVEL
                 /\ table[i].svc = BATTERY_SERVICE
                 /\ table[i].kind = "characteristic"
                 /\ table[i].handle = handle)
    /\ [][(mainpc \notin {"gap", "gatt", "battery"}) => handle' = handle]_vars
    /\ [][nsent >= 1 => lastHandle' = lastHandle]_vars

\* C17 witness: three notify calls, all to the captured handle
C17_Witness == nsent = 3 /\ lastHandle = 6 /\ handle = 6 /\ conns = 1 /\ npc = "timer"

\* C18: once the GATT server is created nothing changes the table, the handle,
\* the advertisement or the battery level's value buffer (it stays 0); of the
\* program's data only tick changes, and only in the notification task's step.
C18_TableReadOnly ==
    /\ [][server => (table' = table /\ handle' = handle /\ bat_level' = bat_level
                     /\ adv_len' = adv_len /\ server')]_vars
    /\ [](bat_level = 0)
    /\ [][tick' # tick => (npc = "timer" /\ npc' = "notify" /\ nsent' = nsent + 1)]_vars

\* C18 witness: two notifications sent, the buffer still 0, the table as built
C18_Witness ==
    server /\ nsent = 2 /\ tick = 2 /\ bat_level = 0 /\ Len(table) = 6 /\ lastLog = "info"

\* C19 (as claimed): the k-th notification is sent exactly 10 * k time units
\* after accept() returned, however long the notify sends take.
C19_FixedPeriod ==
    nsent >= 1 => sentAt = acceptAt + Period * nsent

\* C19 (amended): each notification is sent 10 time units after the previous
\* send completed (after accept() returned, for the first): the k-th is sent at
\* 10 * k plus the time the k - 1 sends before it took, never earlier than 10 * k.
C19_PeriodAfterCompletion ==
    /\ nsent >= 1 =>
         /\ sentAt = acceptAt + Period * nsent + io_time * (nsent - 1)
         /\ sentAt >= acceptAt + Period * nsent
    /\ npc = "notify" => sentAt = timerAt
    /\ (npc = "timer" /\ nsent >= 1) => timerAt = sentAt + io_time + Period
    /\ (npc = "timer" /\ nsent = 0) => timerAt = acceptAt + Period

\* C19 witness: on a link where a send takes one time unit, the third
\* notification is sent 32 time units after accept() returned
C19_Witness ==
    io_time = 1 /\ nsent = 3 /\ npc = "notify" /\ sentAt = acceptAt + 32

\* C20: the event loop never ends and join3 never produces a result: main()
\* stays in the join for as long as the program runs.
C20_NeverCompletes ==
    /\ evpc # "done"
    /\ npc # "done"
    /\ ~joinDone
    /\ mainpc # "returned"
    /\ (pump # "idle" => mainpc = "joined")

\* C20 witness: after MaxNotifs notifications and MaxErrs consecutive stream
\* errors, without any panic, main() is still in the join
C20_Witness ==
    /\ panic = "none" /\ mainpc = "joined" /\ evpc = "next"
    /\ nsent = MaxNotifs /\ errs = MaxErrs /\ pump = "running"

====
